---- MODULE Spec2Model ----
(***************************************************************************)
(* Model of devpi-upload-testresult.py: resolution of the unique sdist of  *)
(* a package (latest_sdist), lazy discovery of tox JSON reports            *)
(* (gen_json_list / iter_path / is_valid_json) and their upload            *)
(* (upload_result), driven by main inside "with closing(hub)".             *)
(*                                                                         *)
(* Strings the code inspects character by character (file names, --index,  *)
(* hrefs) are sequences of one-character strings.  The devpi hub, the      *)
(* index server and the HTTP transport are external: what they return is   *)
(* chosen nondeterministically when the code calls them.                   *)
(***************************************************************************)
EXTENDS Integers, Sequences, FiniteSets, TLC

VARIABLES
    pc,          \* position of main: "start", "resolve", "gen", "upload", "done"
    args,        \* hub.args: [index, recursive, simulate, verbose]
    result_loc,  \* args.result_loc: the filesystem entry each argument names
    paths,       \* main's list `paths`: indices of the arguments that exist
    sdist,       \* the ViewLink latest_sdist returned, or NoLink
    argi,        \* gen_json_list: index in `paths` of the next argument
    stack,       \* generator frames: directories being iterated
    pending,     \* the path the generator has yielded to main's for loop
    trace,       \* every call on the hub, the index, the filesystem, in order
    last,        \* the most recent upload_result call: [at, status, branch]
    exit,        \* how the process ended: [code, by]
    vpath,       \* validator harness: the path given to is_valid_json
    vres         \* validator harness: what the call did

vars == <<pc, args, result_loc, paths, sdist, argi, stack, pending, trace,
          last, exit, vpath, vres>>

----------------------------------------------------------------------------
(* Bounds of the model *)

\* number of json_or_dir arguments on the command line
MaxArgs == 2
\* nesting depth of the directory trees of the discovery harness
MaxDepth == 2

----------------------------------------------------------------------------
(* Strings *)

RECURSIVE CountChar(_, _)
\* str.count(c) for a one-character c
CountChar(s, c) ==
    IF s = <<>> THEN 0
    ELSE (IF Head(s) = c THEN 1 ELSE 0) + CountChar(Tail(s), c)

\* str.startswith(p)
StartsWith(s, p) == Len(s) >= Len(p) /\ SubSeq(s, 1, Len(p)) = p

\* str.rfind(c): the last 0-based position of c in s, -1 when absent
RFind(s, c) ==
    LET hits == {i \in 1..Len(s) : s[i] = c}
    IN  IF hits = {} THEN -1 ELSE (CHOOSE i \in hits : \A j \in hits : j <= i) - 1

\* str.find(c): the first 0-based position of c in s, -1 when absent
Find(s, c) ==
    LET hits == {i \in 1..Len(s) : s[i] = c}
    IN  IF hits = {} THEN -1 ELSE (CHOOSE i \in hits : \A j \in hits : i <= j) - 1

DotJson == <<".", "j", "s", "o", "n">>
HttpColon == <<"h", "t", "t", "p", ":">>
HttpsColon == <<"h", "t", "t", "p", "s", ":">>

\* args.index when --index is not given (Python's None)
None == <<"None">>

----------------------------------------------------------------------------
(* The filesystem.  An entry is what one path names: a file with its name, *)
(* its readability and its content, a directory with its children, or      *)
(* nothing.  A file's content is described by what the two reads of the    *)
(* program can observe of it:                                              *)
(*   doc.utf8    read_text(encoding='utf8') decodes it                     *)
(*   doc.json    json.loads accepts the decoded text                       *)
(*   doc.jtype   the Python type of the parsed document                    *)
(*   doc.members the x for which `x in document` is true                   *)
(*   reread      json.loads(path.read_text()) of upload_result succeeds:   *)
(*               it reads later and with the locale's encoding, so a file  *)
(*               the validator accepted may fail there                     *)

NoDoc == [utf8 |-> FALSE, json |-> FALSE, jtype |-> "none", members |-> {}]

Doc(jtype, members) ==
    [utf8 |-> TRUE, json |-> TRUE, jtype |-> jtype, members |-> members]

File(name, st, doc, reread) ==
    [type |-> "file", name |-> name, st |-> st, doc |-> doc, reread |-> reread,
     listable |-> FALSE, children |-> <<>>]

Dir(name, listable, children) ==
    [type |-> "dir", name |-> name, st |-> "ok", doc |-> NoDoc, reread |-> FALSE,
     listable |-> listable, children |-> children]

Missing(name) ==
    [type |-> "missing", name |-> name, st |-> "ok", doc |-> NoDoc,
     reread |-> FALSE, listable |-> FALSE, children |-> <<>>]

\* Path.is_file() / Path.is_dir()
is_file(p) == p.type = "file"
is_dir(p) == p.type = "dir"

\* PurePath.suffix: the name from its last dot, unless that dot leads or ends it
Suffix(name) ==
    LET i == RFind(name, ".")
    IN  IF 0 < i /\ i < Len(name) - 1 THEN SubSeq(name, i + 1, Len(name)) ELSE <<>>

\* path.read_text(encoding='utf8') raises: no such file, a directory, no
\* permission, or bytes that are not UTF-8
ReadTextUtf8Raises(p) == p.type # "file" \/ p.st # "ok" \/ ~p.doc.utf8

\* json.loads(content) raises
JsonLoadsRaises(p) == ~p.doc.json

\* is_valid_json with the code's test `"toxversion" in jsondata` alone
is_valid_json_no_isinstance(p) ==
    IF Suffix(p.name) # DotJson
    THEN [ret |-> FALSE, read |-> FALSE, raised |-> FALSE]
    ELSE IF ReadTextUtf8Raises(p) \/ JsonLoadsRaises(p)
    THEN [ret |-> FALSE, read |-> TRUE, raised |-> FALSE]
    ELSE [ret |-> "toxversion" \in p.doc.members, read |-> TRUE, raised |-> FALSE]

\* is_valid_json accepting every mapping
is_valid_json_any_dict(p) ==
    IF Suffix(p.name) # DotJson
    THEN [ret |-> FALSE, read |-> FALSE, raised |-> FALSE]
    ELSE IF ReadTextUtf8Raises(p) \/ JsonLoadsRaises(p)
    THEN [ret |-> FALSE, read |-> TRUE, raised |-> FALSE]
    ELSE [ret |-> p.doc.jtype = "dict", read |-> TRUE, raised |-> FALSE]

\* is_valid_json: what it returns, whether it tried to read the file, and
\* whether an exception left it
is_valid_json(p) ==
    IF Suffix(p.name) # DotJson
    THEN [ret |-> FALSE, read |-> FALSE, raised |-> FALSE]
    ELSE IF ReadTextUtf8Raises(p) \/ JsonLoadsRaises(p)
    THEN [ret |-> FALSE, read |-> TRUE, raised |-> FALSE]
    ELSE [ret |-> p.doc.jtype = "dict" /\ "toxversion" \in p.doc.members,
          read |-> TRUE, raised |-> FALSE]

----------------------------------------------------------------------------
(* Inputs of the validator harness *)

Names ==
    { <<"a", ".", "j", "s", "o", "n">>,
      <<"a", ".", "J", "S", "O", "N">>,
      <<"a", ".", "t", "x", "t">>,
      <<"a">>,
      <<".", "j", "s", "o", "n">>,
      <<"a", ".", "j", "s", "o", "n", ".", "b", "a", "k">>,
      <<"a", ".", "b", ".", "j", "s", "o", "n">>,
      <<"a", ".", "j", "s", "o", "n", "l">>,
      <<"a", "j", "s", "o", "n">>,
      <<"a", ".", "j", "s", "o", "n", ".">> }

Docs ==
    { NoDoc,
      [utf8 |-> TRUE, json |-> FALSE, jtype |-> "none", members |-> {}],
      Doc("dict", {}), Doc("dict", {"foo"}), Doc("dict", {"toxversion"}),
      Doc("dict", {"toxversion", "foo"}), Doc("dict", {"TOXVERSION"}),
      Doc("list", {}), Doc("list", {"toxversion"}), Doc("str", {"toxversion"}),
      Doc("int", {}), Doc("null", {}) }

ValidatorInputs ==
    {File(n, st, d, TRUE) : n \in Names, st \in {"ok", "noperm"}, d \in Docs}
    \cup {Missing(n) : n \in Names}
    \cup {Dir(n, TRUE, <<>>) : n \in Names}

NotCalled == [called |-> FALSE, ret |-> FALSE, read |-> FALSE, raised |-> FALSE]
NoPath == Missing(<<>>)

----------------------------------------------------------------------------
(* The trace: one event per call the program makes on the hub (info, warn, *)
(* error, fatal, http_api, close), on the index (switch_to_temporary,      *)
(* get_matching_versioninfo, get_links, find_sdist_and_wheels) and on the  *)
(* filesystem (iterdir, the validator's read, upload_result's read).       *)
(*   at     the path the call is about: <<i>> is the i-th argument,        *)
(*          <<i, j>> its j-th child, and so on                             *)
(*   s      the string the call is given (an index, an href)               *)
(*   lines  the lines of a fatal message; for find_sdist_and_wheels, the   *)
(*          hrefs of the sdist_links it returned                           *)
(*   shows  the values a diagnostic's text interpolates                    *)

Ev(ev, at, s) == [ev |-> ev, at |-> at, s |-> s, lines |-> <<>>, shows |-> {}]
Fatal(lines, shows) ==
    [ev |-> "fatal", at |-> <<>>, s |-> <<>>, lines |-> lines, shows |-> shows]
\* hub.error(f"Could not post tox report '{path}' to '{href}'")
Error(at, href) ==
    [ev |-> "error", at |-> at, s |-> href, lines |-> <<>>, shows |-> {"path", "href"}]
Close == Ev("close", <<>>, <<>>)

RECURSIVE Lookup(_, _)
Lookup(e, rest) ==
    IF rest = <<>> THEN e ELSE Lookup(e.children[Head(rest)], Tail(rest))

\* the filesystem entry the path `at` names
EntryAt(at) == Lookup(result_loc[Head(at)], Tail(at))

Events(kind) == SelectSeq(trace, LAMBDA e : e.ev = kind)
Positions(kind) == {i \in 1..Len(trace) : trace[i].ev = kind}

----------------------------------------------------------------------------
(* latest_sdist *)

\* a ViewLink: the release link of one file
ViewLink(href) == [href |-> href]
NoLink == ViewLink(<<>>)
LinkA == ViewLink(<<"u", "/", "p", "-", "1", ".", "t", "g", "z", "#", "m", "d", "5">>)
LinkB == ViewLink(<<"u", "/", "p", "-", "1", ".", "z", "i", "p">>)

\* what find_sdist_and_wheels can return as sdist_links
SdistLists == {<<>>, <<LinkA>>, <<LinkA, LinkB>>, <<LinkB, LinkA>>}

\* URL(href).url_nofrag: the href up to its first '#'
url_nofrag(href) ==
    LET i == Find(href, "#")
    IN  IF i < 0 THEN href ELSE SubSeq(href, 1, i)

\* `if index:` of a str or None
Truthy(index) == index # None /\ index # <<>>

\* index.startswith(("http:", "https:"))
IsUrlIndex(index) == StartsWith(index, HttpColon) \/ StartsWith(index, HttpsColon)

\* the elif with a bound of two separators
IndexMalformed_off_by_one(index) ==
    Truthy(index) /\ ~IsUrlIndex(index) /\ CountChar(index, "/") > 2

\* the branch of line 171: hub.fatal for an index that is no URL, USER/NAME or NAME
IndexMalformed(index) ==
    Truthy(index) /\ ~IsUrlIndex(index) /\ CountChar(index, "/") > 1

MsgIndexForm == <<"index not of form URL, USER/NAME or NAME">>
MsgNoVersion == <<"No matching package version">>
MsgNoRelease == <<"No releasefile found">>
MsgMultiple == <<"Multiple sdists found matching">>

\* the list `msgs` of lines 186-187: a str, then the ViewLink objects themselves
Msgs(sdist_links) ==
    <<[isstr |-> TRUE, text |-> MsgMultiple]>>
    \o [i \in 1..Len(sdist_links) |-> [isstr |-> FALSE, text |-> sdist_links[i].href]]

\* os.linesep.join(msgs) raises TypeError when an item is not a str
JoinRaises(msgs) == \E i \in 1..Len(msgs) : ~msgs[i].isstr

\* latest_sdist for hub.args.index = index, where the index answers with
\* versioninfo (or none), release links (or none) and sdist_links.
\* end: "return" (link is the sdist), "fatal" (hub.fatal raised SystemExit)
\* or "raise" (another exception left the function)
latest_sdist(index, versioninfo, links, sdist_links) ==
    LET isurl == Truthy(index) /\ IsUrlIndex(index)
        index2 == IF isurl THEN None ELSE index
        switch == IF isurl THEN <<Ev("switch_to_temporary", <<>>, index)>> ELSE <<>>
        lookup == switch \o <<Ev("get_matching_versioninfo", <<>>, index2)>>
        getlinks == lookup \o <<Ev("get_links", <<>>, <<>>)>>
        find == getlinks \o
                  <<[Ev("find_sdist_and_wheels", <<>>, <<>>) EXCEPT
                        !.lines = [i \in 1..Len(sdist_links) |-> sdist_links[i].href]]>>
    IN  IF IndexMalformed(index)
        THEN [end |-> "fatal", link |-> NoLink, events |-> <<Fatal(<<MsgIndexForm>>, {"index"})>>]
        ELSE IF ~versioninfo
        THEN [end |-> "fatal", link |-> NoLink,
              events |-> lookup \o <<Fatal(<<MsgNoVersion>>, {"pkgspec"})>>]
        ELSE IF ~links
        THEN [end |-> "fatal", link |-> NoLink,
              events |-> getlinks \o <<Fatal(<<MsgNoRelease>>, {"pkgspec"})>>]
        ELSE IF Len(sdist_links) = 1
        THEN [end |-> "return", link |-> sdist_links[1], events |-> find]
        ELSE IF JoinRaises(Msgs(sdist_links))
        THEN [end |-> "raise", link |-> NoLink, events |-> find]
        ELSE [end |-> "fatal", link |-> NoLink,
              events |-> find \o
                  <<Fatal([i \in 1..Len(Msgs(sdist_links)) |-> Msgs(sdist_links)[i].text],
                          {"pkgspec"})>>]

----------------------------------------------------------------------------
(* Inputs of a run of main *)

AJson == <<"a", ".", "j", "s", "o", "n">>
BJson == <<"b", ".", "j", "s", "o", "n">>
NotesTxt == <<"n", "o", "t", "e", "s", ".", "t", "x", "t">>
DirName == <<"d">>

\* a tox report: {"toxversion": "4.0"}
Report == File(AJson, "ok", Doc("dict", {"toxversion"}), TRUE)
\* a tox report that upload_result can no longer load
StaleReport == File(AJson, "ok", Doc("dict", {"toxversion"}), FALSE)
\* {"foo": 1}
NoMarker == File(BJson, "ok", Doc("dict", {"foo"}), TRUE)
Notes == File(NotesTxt, "ok", NoDoc, TRUE)

\* what a json_or_dir argument can name
ArgChoices ==
    { Report, StaleReport, NoMarker,
      Dir(DirName, TRUE, <<Report, NoMarker, Notes>>),
      Dir(DirName, TRUE, <<Dir(DirName, TRUE, <<Report, NoMarker>>), Report>>),
      Dir(DirName, FALSE, <<>>),
      Missing(AJson) }

\* the values of --index
IndexValues ==
    { None,
      <<"d", "e", "v">>,
      <<"u", "/", "d", "e", "v">>,
      <<"u", "/", "d", "/", "x">>,
      <<"h", "t", "t", "p", ":", "/", "/", "h">>,
      <<"h", "t", "t", "p", "s", ":", "/", "/", "h">> }

\* what hub.http_api can do: return a response with a status, or raise
HttpStatuses == {200, 204, 500}
HttpOutcomes == HttpStatuses \cup {-1}

SeqsUpTo(S, n) == UNION {[1..k -> S] : k \in 1..n}

NoUpload == [at |-> <<>>, status |-> 0, branch |-> "none"]
Running == [code |-> -1, by |-> "running"]

----------------------------------------------------------------------------
(* main *)

\* leaving the with block without the close
LeaveWith_no_close(events, code, by) ==
    /\ trace' = trace \o events
    /\ exit' = [code |-> code, by |-> by]
    /\ pc' = "done"

\* leaving the block of `with closing(hub)`: hub.close(), then the process
\* ends with the exit code of a normal end (0), of SystemExit(1) or of an
\* uncaught exception (1)
LeaveWith(events, code, by) ==
    /\ trace' = trace \o events \o <<Close>>
    /\ exit' = [code |-> code, by |-> by]
    /\ pc' = "done"

\* `paths` in the order opposite to the command line's
ExistingPaths_reversed(locs) ==
    LET idx == SelectSeq([i \in 1..Len(locs) |-> i], LAMBDA i : locs[i].type # "missing")
    IN  [k \in 1..Len(idx) |-> idx[Len(idx) + 1 - k]]

\* lines 97-101: the arguments that exist, in the order given
ExistingPaths(locs) ==
    SelectSeq([i \in 1..Len(locs) |-> i], LAMBDA i : locs[i].type # "missing")

\* lines 102-103: a warning for each argument that does not exist
MissingWarnings(locs) ==
    LET idx == SelectSeq([i \in 1..Len(locs) |-> i], LAMBDA i : locs[i].type = "missing")
    IN  [k \in 1..Len(idx) |-> Ev("warn_nonexistent", <<idx[k]>>, <<>>)]

\* lines 72-103: --dry-run implies -v; the hub is built; `paths` is filled
MainStart ==
    /\ pc = "start"
    /\ args' = [args EXCEPT !.verbose = IF args.simulate THEN @ + 1 ELSE @]
    /\ paths' = ExistingPaths(result_loc)
    /\ trace' = trace \o MissingWarnings(result_loc)
    /\ pc' = "resolve"
    /\ UNCHANGED <<result_loc, sdist, argi, stack, pending, last, exit, vpath, vres>>

\* lines 105-109: the with block is entered and latest_sdist runs
Resolve ==
    /\ pc = "resolve"
    /\ \E versioninfo \in BOOLEAN, links \in BOOLEAN, sdist_links \in SdistLists :
         LET r == latest_sdist(args.index, versioninfo, links, sdist_links)
         IN  CASE r.end = "return" ->
                    /\ sdist' = r.link
                    /\ trace' = trace \o r.events \o
                          (IF args.verbose > 0
                           THEN <<Ev("info_unique", <<>>, r.link.href)>> ELSE <<>>)
                    /\ pc' = "gen"
                    /\ UNCHANGED exit
               [] r.end = "fatal" ->
                    /\ LeaveWith(r.events, 1, "fatal")
                    /\ UNCHANGED sdist
               [] r.end = "raise" ->
                    /\ LeaveWith(r.events, 1, "latest_sdist")
                    /\ UNCHANGED sdist
    /\ UNCHANGED <<args, result_loc, paths, argi, stack, pending, last, vpath, vres>>

----------------------------------------------------------------------------
(* gen_json_list and iter_path: a generator, resumed by main's for loop.   *)
(* `argi` is the position of gen_json_list's loop over `paths`; `stack`    *)
(* holds one frame [at, next] per directory whose iterdir() is being       *)
(* consumed, the innermost last.                                           *)

\* the call is_valid_json(path) as the trace sees it
ValidateEvents(at) ==
    <<Ev("is_valid_json", at, <<>>)>>
    \o (IF is_valid_json(EntryAt(at)).read
        THEN <<Ev("validator_read", at, <<>>)>> ELSE <<>>)

\* lines 121-123 and 137-139: the info line when verbose, then the yield
YieldEvents(at) ==
    (IF args.verbose > 0 THEN <<Ev("info_discovered", at, <<>>)>> ELSE <<>>)
    \o <<Ev("yield", at, <<>>)>>

\* line 125 without the test of the recursive flag
DescendInto_always(p) == is_dir(p)

\* line 125: path.is_dir() and hub_args.recursive
DescendInto(p) == is_dir(p) /\ args.recursive

Top == stack[Len(stack)]
TopChild == Top.at \o <<Top.next>>
Advance == [stack EXCEPT ![Len(stack)].next = @ + 1]

\* lines 134-141: the next argument is a file
GenArgFile ==
    /\ pc = "gen" /\ stack = <<>> /\ argi <= Len(paths)
    /\ LET at == <<paths[argi]>>
       IN  /\ is_file(EntryAt(at))
           /\ IF is_valid_json(EntryAt(at)).ret
              THEN /\ trace' = trace \o ValidateEvents(at) \o YieldEvents(at)
                   /\ pending' = <<at>>
                   /\ pc' = "upload"
              ELSE /\ trace' = trace \o ValidateEvents(at)
                                     \o <<Ev("warn_ignoring", at, <<>>)>>
                   /\ UNCHANGED <<pending, pc>>
    /\ argi' = argi + 1
    /\ UNCHANGED <<args, result_loc, paths, sdist, stack, last, exit, vpath, vres>>

\* lines 142-143: the next argument is a directory, whose iterdir() starts
\* (it raises when the directory cannot be listed)
GenArgDir ==
    /\ pc = "gen" /\ stack = <<>> /\ argi <= Len(paths)
    /\ LET at == <<paths[argi]>>
       IN  /\ is_dir(EntryAt(at))
           /\ IF EntryAt(at).listable
              THEN /\ trace' = Append(trace, Ev("iterdir", at, <<>>))
                   /\ stack' = <<[at |-> at, next |-> 1]>>
                   /\ argi' = argi + 1
                   /\ UNCHANGED <<pc, exit>>
              ELSE /\ LeaveWith(<<Ev("iterdir", at, <<>>)>>, 1, "discovery")
                   /\ UNCHANGED <<stack, argi>>
    /\ UNCHANGED <<args, result_loc, paths, sdist, pending, last, vpath, vres>>

\* lines 119-124: iter_path of a child that is a file
IterPathFile ==
    /\ pc = "gen" /\ stack # <<>> /\ Top.next <= Len(EntryAt(Top.at).children)
    /\ is_file(EntryAt(TopChild))
    /\ IF is_valid_json(EntryAt(TopChild)).ret
       THEN /\ trace' = trace \o ValidateEvents(TopChild) \o YieldEvents(TopChild)
            /\ pending' = <<TopChild>>
            /\ pc' = "upload"
       ELSE /\ trace' = trace \o ValidateEvents(TopChild)
            /\ UNCHANGED <<pending, pc>>
    /\ stack' = Advance
    /\ UNCHANGED <<args, result_loc, paths, sdist, argi, last, exit, vpath, vres>>

\* lines 125-127: iter_path of a child that is a directory
IterPathDir ==
    /\ pc = "gen" /\ stack # <<>> /\ Top.next <= Len(EntryAt(Top.at).children)
    /\ is_dir(EntryAt(TopChild))
    /\ IF ~DescendInto(EntryAt(TopChild))
       THEN /\ stack' = Advance
            /\ UNCHANGED <<trace, pc, exit>>
       ELSE IF EntryAt(TopChild).listable
       THEN /\ trace' = Append(trace, Ev("iterdir", TopChild, <<>>))
            /\ stack' = Append(Advance, [at |-> TopChild, next |-> 1])
            /\ UNCHANGED <<pc, exit>>
       ELSE /\ LeaveWith(<<Ev("iterdir", TopChild, <<>>)>>, 1, "discovery")
            /\ UNCHANGED stack
    /\ UNCHANGED <<args, result_loc, paths, sdist, argi, pending, last, vpath, vres>>

\* the loop over a directory's children ends: the frame returns
IterReturn ==
    /\ pc = "gen" /\ stack # <<>> /\ Top.next > Len(EntryAt(Top.at).children)
    /\ stack' = SubSeq(stack, 1, Len(stack) - 1)
    /\ UNCHANGED <<pc, args, result_loc, paths, sdist, argi, pending, trace, last,
                   exit, vpath, vres>>

\* lines 110-111 and 105: the generator is exhausted, the for loop and the
\* with block end, the process exits with 0
GenDone ==
    /\ pc = "gen" /\ stack = <<>> /\ argi > Len(paths)
    /\ LeaveWith(<<>>, 0, "end")
    /\ UNCHANGED <<args, result_loc, paths, sdist, argi, stack, pending, last,
                   vpath, vres>>

----------------------------------------------------------------------------
(* upload_result *)

\* line 203 with any 2xx status taken as success
PostSucceeded_any_2xx(status) == status >= 200 /\ status <= 299

\* line 203: r.status_code == 200
PostSucceeded(status) == status = 200

\* lines 191-207 for the path the generator yielded; the with block is left
\* when the read, the parse or http_api raises
UploadResult ==
    /\ pc = "upload"
    /\ LET at == Head(pending)
           href == url_nofrag(sdist.href)
           read == <<Ev("upload_read", at, <<>>)>>
           posting == IF args.verbose > 0
                      THEN <<Ev("info_posting", at, <<>>)>> ELSE <<>>
           post == <<Ev("http_api_post", at, href)>>
       IN  IF ~EntryAt(at).reread
           THEN /\ LeaveWith(read, 1, "upload_result")
                /\ last' = [at |-> at, status |-> 0, branch |-> "load_raised"]
           ELSE IF args.simulate
           THEN /\ trace' = trace \o read \o posting
                /\ last' = [at |-> at, status |-> 0, branch |-> "simulated"]
                /\ pc' = "gen"
                /\ UNCHANGED exit
           ELSE \E outcome \in HttpOutcomes :
                  IF outcome \notin HttpStatuses
                  THEN /\ LeaveWith(read \o posting \o post, 1, "upload_result")
                       /\ last' = [at |-> at, status |-> 0, branch |-> "http_raised"]
                  ELSE IF PostSucceeded(outcome)
                  THEN /\ trace' = trace \o read \o posting \o post \o
                             (IF args.verbose > 0
                              THEN <<Ev("info_posted", at, <<>>)>> ELSE <<>>)
                       /\ last' = [at |-> at, status |-> outcome, branch |-> "posted"]
                       /\ pc' = "gen"
                       /\ UNCHANGED exit
                  ELSE /\ trace' = trace \o read \o posting \o post \o
                             <<Error(at, href)>>
                       /\ last' = [at |-> at, status |-> outcome, branch |-> "error"]
                       /\ pc' = "gen"
                       /\ UNCHANGED exit
    /\ pending' = <<>>
    /\ UNCHANGED <<args, result_loc, paths, sdist, argi, stack, vpath, vres>>

----------------------------------------------------------------------------
(* The program *)

Init ==
    /\ pc = "start"
    /\ args \in [index : IndexValues, recursive : BOOLEAN, simulate : BOOLEAN,
                 verbose : {0, 1}]
    /\ result_loc \in SeqsUpTo(ArgChoices, MaxArgs)
    /\ paths = <<>>
    /\ sdist = NoLink
    /\ argi = 1
    /\ stack = <<>>
    /\ pending = <<>>
    /\ trace = <<>>
    /\ last = NoUpload
    /\ exit = Running
    /\ vpath = NoPath
    /\ vres = NotCalled

Next ==
    \/ MainStart
    \/ Resolve
    \/ GenArgFile
    \/ GenArgDir
    \/ IterPathFile
    \/ IterPathDir
    \/ IterReturn
    \/ GenDone
    \/ UploadResult

Spec == Init /\ [][Next]_vars

----------------------------------------------------------------------------
(* Discovery alone: gen_json_list consumed by a plain loop, over every     *)
(* tree of at most MaxDepth nested directories with at most two entries    *)
(* per directory.                                                          *)

RECURSIVE Trees(_)
Trees(d) ==
    IF d = 0 THEN {Report, NoMarker}
    ELSE LET sub == Trees(d - 1)
         IN  {Report, NoMarker}
             \cup {Dir(DirName, TRUE, c) :
                     c \in {<<>>} \cup {<<a>> : a \in sub}
                                  \cup {<<a, b>> : a \in sub, b \in sub}}

InitDiscover ==
    /\ pc = "gen"
    /\ args \in [index : {None}, recursive : BOOLEAN, simulate : {FALSE},
                 verbose : {0}]
    /\ result_loc \in {<<t>> : t \in Trees(MaxDepth)}
    /\ paths = <<1>>
    /\ sdist = NoLink
    /\ argi = 1
    /\ stack = <<>>
    /\ pending = <<>>
    /\ trace = <<>>
    /\ last = NoUpload
    /\ exit = Running
    /\ vpath = NoPath
    /\ vres = NotCalled

\* the consumer takes the yielded path and resumes the generator
Consume ==
    /\ pc = "upload"
    /\ pending' = <<>>
    /\ pc' = "gen"
    /\ UNCHANGED <<args, result_loc, paths, sdist, argi, stack, trace, last, exit,
                   vpath, vres>>

NextDiscover ==
    \/ GenArgFile
    \/ GenArgDir
    \/ IterPathFile
    \/ IterPathDir
    \/ IterReturn
    \/ GenDone
    \/ Consume

SpecDiscover == InitDiscover /\ [][NextDiscover]_vars

----------------------------------------------------------------------------
(* The validator alone: one call of is_valid_json on every input *)

InitValidator ==
    /\ pc = "validate"
    /\ args = [index |-> None, recursive |-> FALSE, simulate |-> FALSE, verbose |-> 0]
    /\ result_loc = <<>>
    /\ paths = <<>>
    /\ sdist = NoLink
    /\ argi = 1
    /\ stack = <<>>
    /\ pending = <<>>
    /\ trace = <<>>
    /\ last = NoUpload
    /\ exit = Running
    /\ vpath \in ValidatorInputs
    /\ vres = NotCalled

IsValidJsonCall ==
    /\ pc = "validate"
    /\ ~vres.called
    /\ vres' = [called |-> TRUE, ret |-> is_valid_json(vpath).ret,
                read |-> is_valid_json(vpath).read,
                raised |-> is_valid_json(vpath).raised]
    /\ UNCHANGED <<pc, args, result_loc, paths, sdist, argi, stack, pending, trace,
                   last, exit, vpath>>

NextValidator == IsValidJsonCall

SpecValidator == InitValidator /\ [][NextValidator]_vars

----------------------------------------------------------------------------
(* Claims *)

\* the names of Names whose suffix is exactly ".json"
JsonNamed ==
    { <<"a", ".", "j", "s", "o", "n">>, <<"a", ".", "b", ".", "j", "s", "o", "n">> }

\* a readable file named *.json whose content parses to a mapping that holds
\* the key "toxversion"
IsToxReport(p) ==
    /\ p.name \in JsonNamed
    /\ p.type = "file" /\ p.st = "ok"
    /\ p.doc.utf8 /\ p.doc.json
    /\ p.doc.jtype = "dict"
    /\ "toxversion" \in p.doc.members

\* C6: is_valid_json is total: it returns true exactly for a readable file
\* whose suffix is '.json' and whose content parses to a mapping with the key
\* 'toxversion'; it returns false and never raises otherwise; and for another
\* suffix it does not try to read the file.
C6_ValidatorTotal ==
    vres.called =>
        /\ ~vres.raised
        /\ vres.ret = IsToxReport(vpath)
        /\ (vpath.name \notin JsonNamed => ~vres.read)

\* C6 witness: a report with the marker among other keys was accepted
C6_Witness ==
    /\ vres.called /\ vres.ret /\ vres.read
    /\ vpath.doc.members = {"toxversion", "foo"}

\* the values of --index by their form
MalformedIndexes == { <<"u", "/", "d", "/", "x">> }
UrlIndexes ==
    { <<"h", "t", "t", "p", ":", "/", "/", "h">>,
      <<"h", "t", "t", "p", "s", ":", "/", "/", "h">> }
PlainIndexes == IndexValues \ (MalformedIndexes \cup UrlIndexes)

IndexCalls == {"switch_to_temporary", "get_matching_versioninfo", "get_links",
               "find_sdist_and_wheels"}
ReportCalls == {"is_valid_json", "validator_read", "iterdir", "upload_read",
                "http_api_post"}

\* C3: an --index with two or more '/' that is no http(s) URL is fatal before
\* any call on the index and before any report is read or posted; an unset
\* index, NAME and USER/NAME reach the version lookup unchanged; a URL is
\* switched to as a temporary index and the lookup gets no index.
C3_IndexForms ==
    pc \notin {"start", "resolve"} =>
        /\ args.index \in MalformedIndexes =>
              /\ exit.by = "fatal" /\ exit.code # 0
              /\ Events("fatal") = <<Fatal(<<MsgIndexForm>>, {"index"})>>
              /\ \A i \in 1..Len(trace) : trace[i].ev \notin IndexCalls \cup ReportCalls
        /\ args.index \in PlainIndexes =>
              /\ Events("switch_to_temporary") = <<>>
              /\ Events("get_matching_versioninfo") =
                    <<Ev("get_matching_versioninfo", <<>>, args.index)>>
        /\ args.index \in UrlIndexes =>
              /\ Events("switch_to_temporary") =
                    <<Ev("switch_to_temporary", <<>>, args.index)>>
              /\ Events("get_matching_versioninfo") =
                    <<Ev("get_matching_versioninfo", <<>>, None)>>
              /\ \A i \in Positions("switch_to_temporary"),
                    j \in Positions("get_matching_versioninfo") : i < j

\* C3 witness: the run with --index u/d/x ended in the fatal diagnostic
C3_Witness ==
    /\ pc = "done" /\ exit.by = "fatal"
    /\ args.index \in MalformedIndexes
    /\ Len(result_loc) = 2 /\ result_loc[1] = Report

\* C10: the hub is closed exactly once on every way out of the with block
\* (the batch ends, latest_sdist is fatal or raises, discovery raises,
\* upload_result raises), it is not closed before, and the close is the last
\* call of the run.
C10_ClosedOnce ==
    /\ pc = "done" =>
          /\ Len(Events("close")) = 1
          /\ trace[Len(trace)] = Close
          /\ exit.by \in {"end", "fatal", "latest_sdist", "discovery", "upload_result"}
    /\ pc # "done" => Events("close") = <<>> /\ exit = Running

\* C10 witness: http_api raised in upload_result and the hub was closed
C10_Witness ==
    /\ pc = "done" /\ exit.by = "upload_result" /\ last.branch = "http_raised"
    /\ Len(trace) >= 2
    /\ trace[Len(trace) - 1].ev = "http_api_post"
    /\ trace[Len(trace)] = Close

\* how many events of the kinds precede position i of the trace
Before(kinds, i) == Cardinality({j \in 1..(i - 1) : trace[j].ev \in kinds})

\* is s without a repeated element
Distinct(s) == \A i, j \in 1..Len(s) : s[i] = s[j] => i = j

\* C9: reports are processed one at a time in discovery order: the sdist is
\* resolved once, before the first candidate is validated; when the validator
\* is called, every report yielded so far has been through upload_result
\* (read and, unless simulated, posted); each yielded report is read by
\* upload_result once; the reports of an earlier argument come before those
\* of a later one.
C9_OneAtATime ==
    LET yields == Events("yield")
        uploads == Events("upload_read")
    IN  /\ Len(Events("find_sdist_and_wheels")) <= 1
        /\ \A i \in Positions("is_valid_json") :
              /\ Before({"find_sdist_and_wheels"}, i) = 1
              /\ Before({"upload_read"}, i) = Before({"yield"}, i)
              /\ ~args.simulate => Before({"http_api_post"}, i) = Before({"yield"}, i)
        /\ Distinct(yields) /\ Distinct(uploads)
        /\ Len(uploads) = (IF pc = "upload" THEN Len(yields) - 1 ELSE Len(yields))
        /\ \A k \in 1..Len(uploads) : uploads[k].at = yields[k].at
        /\ \A i \in Positions("yield"), j \in Positions("upload_read") :
              trace[i].at = trace[j].at => i < j
        /\ \A k \in 1..(Len(yields) - 1) : yields[k].at[1] <= yields[k + 1].at[1]

\* C9 witness: a batch of reports from two arguments went through, the
\* second argument's reports after the first's
C9_Witness ==
    /\ pc = "done" /\ exit.by = "end"
    /\ Len(Events("http_api_post")) >= 3
    /\ \E i, j \in Positions("yield") : trace[i].at[1] = 1 /\ trace[j].at[1] = 2

RECURSIVE ReportsUnder(_, _, _)
\* the paths of the files under directory d (named by `at`) that
\* is_valid_json accepts: its children, and with deep the files at any depth
ReportsUnder(d, at, deep) ==
    UNION { LET c == d.children[j]
                cat == at \o <<j>>
            IN  IF c.type = "file"
                THEN (IF is_valid_json(c).ret THEN {cat} ELSE {})
                ELSE IF c.type = "dir" /\ deep THEN ReportsUnder(c, cat, deep)
                ELSE {}
            : j \in 1..Len(d.children) }

\* the reports of argument i
ReportsOfArg(i) ==
    LET e == result_loc[i]
    IN  IF e.type = "file" THEN (IF is_valid_json(e).ret THEN {<<i>>} ELSE {})
        ELSE IF e.type = "dir" THEN ReportsUnder(e, <<i>>, args.recursive)
        ELSE {}

Yielded == {trace[i].at : i \in Positions("yield")}

\* C5: for a directory argument, gen_json_list yields only files that
\* is_valid_json accepts, each once; without recursive these are children of
\* the directory and nothing of a subdirectory; when the generator is
\* exhausted it has yielded exactly the accepted children (not recursive) or
\* exactly the accepted files at any depth (recursive).
C5_Discovery ==
    result_loc[1].type = "dir" =>
        /\ Distinct(Events("yield"))
        /\ Yielded \subseteq ReportsOfArg(1)
        /\ \A at \in Yielded : is_valid_json(EntryAt(at)).ret
        /\ ~args.recursive => \A at \in Yielded : Len(at) = 2
        /\ pc = "done" => Yielded = ReportsOfArg(1)

\* C5 witness: a recursive walk ended having yielded a report two
\* directories down and passed over a file the validator rejects
C5_Witness ==
    /\ pc = "done" /\ args.recursive
    /\ \E at \in Yielded : Len(at) = 3
    /\ \E i \in Positions("is_valid_json") :
          Len(trace[i].at) = 3 /\ trace[i].at \notin Yielded

\* the events after the last call of http_api
AfterLastPost ==
    LET ps == Positions("http_api_post")
        lp == CHOOSE i \in ps : \A j \in ps : j <= i
    IN  IF ps = {} THEN <<>> ELSE SubSeq(trace, lp + 1, Len(trace))

\* the last call of upload_result got a response from http_api
Responded == last.branch \in {"posted", "error"}

\* C7 as stated: every 2xx response is a success without an error diagnostic,
\* every other response an error diagnostic that shows the HTTP status.
C7_Any2xxPosted ==
    Responded =>
        /\ (last.status >= 200 /\ last.status <= 299) =>
              /\ last.branch = "posted"
              /\ \A i \in 1..Len(AfterLastPost) : AfterLastPost[i].ev # "error"
        /\ ~(last.status >= 200 /\ last.status <= 299) =>
              /\ last.branch = "error"
              /\ \E i \in 1..Len(AfterLastPost) :
                    AfterLastPost[i].ev = "error" /\ "status" \in AfterLastPost[i].shows

\* C7 amended: a response of status 200, and no other, is a success without
\* an error diagnostic; every other status, 201 to 299 included, gets one
\* error diagnostic, which names the report and the URL posted to and does
\* not show the status.
C7_Only200Posted ==
    Responded =>
        /\ last.branch = "posted" <=> last.status = 200
        /\ last.status = 200 =>
              \A i \in 1..Len(AfterLastPost) : AfterLastPost[i].ev # "error"
        /\ last.status # 200 =>
              /\ AfterLastPost # <<>>
              /\ AfterLastPost[1] = Error(last.at, url_nofrag(sdist.href))
              /\ AfterLastPost[1].shows = {"path", "href"}
              /\ \A i \in 2..Len(AfterLastPost) : AfterLastPost[i].ev # "error"

\* C7 witness: a 204 response was reported as an error
C7_Witness ==
    /\ last.branch = "error" /\ last.status = 204
    /\ AfterLastPost # <<>> /\ AfterLastPost[1].ev = "error"

DiagKinds == {"info_unique", "info_discovered", "info_posting", "info_posted",
              "warn_nonexistent", "warn_ignoring", "error", "fatal"}

\* the diagnostics about the path `at`
DiagsAt(at) == SelectSeq(trace, LAMBDA e : e.ev \in DiagKinds /\ e.at = at)

\* the scenario of C8: index unset, not recursive, not simulated, default
\* verbosity, one directory holding a.json (a report), b.json ({"foo": 1})
\* and notes.txt; the sdist was resolved and the run has ended
Scenario8 ==
    /\ args.index = None /\ ~args.recursive /\ ~args.simulate /\ args.verbose = 0
    /\ result_loc = <<Dir(DirName, TRUE, <<Report, NoMarker, Notes>>)>>
    /\ sdist # NoLink
    /\ pc = "done"

\* C8 as stated: one POST, for a.json; one skip diagnostic for b.json; no
\* diagnostic and no POST for notes.txt; exit code 0.
C8_OneSkipDiagnostic ==
    Scenario8 =>
        /\ Len(Events("http_api_post")) = 1
        /\ Events("http_api_post")[1].at = <<1, 1>>
        /\ Len(DiagsAt(<<1, 2>>)) = 1
        /\ DiagsAt(<<1, 3>>) = <<>>
        /\ exit.code = 0

\* C8 amended: one POST, for a.json; no diagnostic for b.json, which is
\* passed over silently like every child of a directory (validated, once
\* http_api has returned); no diagnostic and no POST for notes.txt, which is
\* not read; the exit code is 0 when http_api returns a response and 1 when
\* it raises.
C8_SilentSkip ==
    Scenario8 =>
        /\ Len(Events("http_api_post")) = 1
        /\ Events("http_api_post")[1].at = <<1, 1>>
        /\ DiagsAt(<<1, 2>>) = <<>>
        /\ Responded => \E i \in Positions("validator_read") : trace[i].at = <<1, 2>>
        /\ DiagsAt(<<1, 3>>) = <<>>
        /\ \A i \in Positions("validator_read") : trace[i].at # <<1, 3>>
        /\ Responded <=> exit.code = 0
        /\ last.branch = "http_raised" <=> exit.code = 1

\* C8 witness: the scenario ended with one POST and exit code 0
C8_Witness ==
    /\ Scenario8 /\ exit.code = 0 /\ last.status = 200
    /\ Len(Events("http_api_post")) = 1

\* every report the arguments hold, by discovery
AllReports == UNION {ReportsOfArg(paths[k]) : k \in 1..Len(paths)}

UploadedAt == {trace[i].at : i \in Positions("upload_read")}
PostedAt == {trace[i].at : i \in Positions("http_api_post")}

\* C1: a failure of upload_result for one report (the file no longer loads,
\* the response is not a success, http_api raises) does not end the batch:
\* the run does not end by an exception of upload_result, and when it has
\* ended without a failure of resolution or discovery, upload_result has been
\* called for every report and the exit code is 0.
C1_UploadFailureNotFatal ==
    /\ exit.by # "upload_result"
    /\ (pc = "done" /\ sdist # NoLink /\ exit.by # "discovery") =>
          /\ UploadedAt = AllReports
          /\ exit.code = 0

\* the sdist_links find_sdist_and_wheels returned, when it was called
Candidates == Events("find_sdist_and_wheels")[1].lines

\* C2: when the sdist filter gives no candidate or several, the run ends in
\* the fatal diagnostic with a non-zero exit code, the diagnostic names the
\* failure and lists every candidate, and nothing is posted.
C2_AmbiguousSdistFatal ==
    (pc = "done" /\ Events("find_sdist_and_wheels") # <<>> /\ Len(Candidates) # 1) =>
        /\ exit.by = "fatal" /\ exit.code # 0
        /\ Len(Events("fatal")) = 1
        /\ Events("fatal")[1].lines = <<MsgMultiple>> \o Candidates
        /\ Events("http_api_post") = <<>>

\* no argument names a report that upload_result cannot load
AllLoadable == \A at \in AllReports : EntryAt(at).reread

\* C4: with the sdist resolved and N reports discovered, a dry run reads
\* every report and posts nothing; a run that is not simulated posts exactly
\* N times, once per report, to the sdist's URL without its fragment.
C4_DryRunAndPosts ==
    (pc = "done" /\ sdist # NoLink /\ exit.by # "discovery" /\ AllLoadable) =>
        /\ UploadedAt = AllReports
        /\ args.simulate => Events("http_api_post") = <<>>
        /\ ~args.simulate =>
              /\ PostedAt = AllReports
              /\ Len(Events("http_api_post")) = Cardinality(AllReports)
              /\ \A i \in Positions("http_api_post") :
                    /\ Find(trace[i].s, "#") < 0
                    /\ StartsWith(sdist.href, trace[i].s)

====
